---- MODULE Spec2Model ----
(***************************************************************************)
(* Model of PyCharacterAI's Requester (src/PyCharacterAI/requester.py):    *)
(* the session lifecycle (initialize / uninitialize), the request          *)
(* dispatch on its standard path (route interception + navigation) and on  *)
(* its streaming path (in-page fetch + extraction), and the browser that   *)
(* the Requester drives.                                                   *)
(*                                                                         *)
(* The Requester is asyncio code: a coroutine runs without interruption    *)
(* from one await to the next.  An action of the model is the code between *)
(* two suspension points of one call, together with the completion of the  *)
(* browser operation the call was suspended on.  Several calls may be in   *)
(* flight on the same Requester; nothing in the source serializes them.    *)
(***************************************************************************)
EXTENDS Integers, Sequences, FiniteSets, TLC

(***************************************************************************)
(* Bounds of the model.                                                    *)
(***************************************************************************)
NumDispatch == 2    \* request() calls that may be in flight together
NumInit == 2        \* initialize() calls that may be in flight together
MaxLaunch == 2      \* browsers launched (and pages created) in one behaviour
MaxLen == 4         \* length of a fetched text (SpecStream)

Dispatches == 1..NumDispatch
InitCallers == 1..NumInit
Browsers == 1..MaxLaunch
Pages == 1..MaxLaunch
NoHandle == 0       \* Python's None for the browser and page fields

(***************************************************************************)
(* Values.                                                                 *)
(***************************************************************************)
\* a URL is its host and the segments of its path (every path ends with "/")
BetaHost == "beta.character.ai"
PlusHost == "plus.character.ai"
AuthPath == <<"chat", "auth", "lazy">>
InfoPath == <<"chat", "character", "info">>
StreamingPath == <<"chat", "streaming">>

AuthUrl == [host |-> BetaHost, path |-> AuthPath]
InfoUrl == [host |-> BetaHost, path |-> InfoPath]
StreamUrl == [host |-> BetaHost, path |-> StreamingPath]
Urls == {AuthUrl, InfoUrl, StreamUrl}

\* options dictionaries: the empty dict and the POST example of the specification
NoOptions == [k \in {} |-> ""]
PostOptions == [method |-> "POST", headers |-> "X-Test:1", body |-> "{a:1}"]
OptionDicts == {NoOptions, PostOptions}
EmptyDict == "{}"
Unchanged == "unchanged"   \* a field of a request that continue_ did not override

\* exceptions; all of them are subclasses of Python's Exception
ExceptionClass == {"AttributeError", "TypeError", "KeyError", "Error"}
NoExc == "none"

None == [kind |-> "None"]
Statuses == {200, 500}

\* the characters of a fetched text: the braces, any other character, a line end
Chars == {"{", "}", "x", "\n"}
Texts == UNION {[1..n -> Chars] : n \in 0..MaxLen}
\* the texts the in-page fetch yields under Spec: no brace, an unclosed brace,
\* one object, two objects on one line
SampleTexts == {<< >>, <<"{", "x">>, <<"{", "}">>, <<"{", "}", "{", "}">>}
NoText == << "-" >>

VARIABLES
    initialized,    \* Requester._initialized
    browser,        \* Requester.browser: NoHandle or a browser
    page,           \* Requester.page: NoHandle or a page
    use_plus,       \* Requester.use_plus
    hasDisplayed,   \* Requester._hasDisplayed
    bstat,          \* the browsers: "none" (not launched), "live", "closed"
    pstat,          \* the pages: "none", "live", "closed"
    pbrowser,       \* the browser a page was created in
    pdoc,           \* whether a page holds a loaded document (scripts may run)
    routes,         \* per page, the dispatches whose request_handler is routed
    call,           \* per dispatch, the frame of its request() call
    last,           \* the request the browser sent out in the step just taken
    icall,          \* per initialize() call, its frame
    ucall           \* the frame of the uninitialize() call

sessvars == <<initialized, browser, page, use_plus, hasDisplayed>>
worldvars == <<bstat, pstat, pbrowser, pdoc, routes>>
dispvars == <<call>>
lifevars == <<icall, ucall>>
vars == <<sessvars, worldvars, dispvars, last, lifevars>>

Max(S) == CHOOSE x \in S : \A y \in S : y <= x
Min(S) == CHOOSE x \in S : \A y \in S : x <= y

(***************************************************************************)
(* The frame of a request() call.  pc names the await the call is          *)
(* suspended on.  diag, failed, nav_seen and data record what happened     *)
(* in the call; the code does not read them.                               *)
(***************************************************************************)
IdleCall ==
    [pc |-> "idle", page |-> NoHandle, url |-> InfoUrl, method |-> "GET",
     body |-> EmptyDict, headers |-> EmptyDict, response |-> None,
     initial_request |-> TRUE, curnav |-> 0,
     diag |-> FALSE, raised |-> NoExc,
     failed |-> FALSE, nav_seen |-> FALSE, data |-> NoText, plus |-> FALSE]

\* the URL of a request no call of request sent
NoUrl == [host |-> "", path |-> << >>]

NoRequest ==
    [h |-> 0, owner |-> 0, nav |-> FALSE, first |-> FALSE, res |-> "none",
     method |-> Unchanged, headers |-> Unchanged, body |-> Unchanged,
     url |-> NoUrl]

IdleInit == [pc |-> "idle", browser |-> NoHandle]
IdleUninit == [pc |-> "idle", page |-> NoHandle, browser |-> NoHandle,
               exc |-> NoExc, raised |-> NoExc]

Init ==
    /\ initialized = FALSE
    /\ browser = NoHandle
    /\ page = NoHandle
    /\ use_plus = FALSE
    /\ hasDisplayed = FALSE
    /\ bstat = [b \in Browsers |-> "none"]
    /\ pstat = [p \in Pages |-> "none"]
    /\ pbrowser = [p \in Pages |-> NoHandle]
    /\ pdoc = [p \in Pages |-> FALSE]
    /\ routes = [p \in Pages |-> {}]
    /\ call = [d \in Dispatches |-> IdleCall]
    /\ last = NoRequest
    /\ icall = [i \in InitCallers |-> IdleInit]
    /\ ucall = IdleUninit

\* a step in which the browser sends no request out
Quiet == last' = NoRequest

(***************************************************************************)
(* The browser: closing a page or a browser.                               *)
(***************************************************************************)
\* a closed page has no route table and runs no document
ClosePages(ps) ==
    /\ pstat' = [p \in Pages |-> IF p \in ps /\ pstat[p] = "live" THEN "closed" ELSE pstat[p]]
    /\ routes' = [p \in Pages |-> IF p \in ps THEN {} ELSE routes[p]]
    /\ pdoc' = [p \in Pages |-> IF p \in ps THEN FALSE ELSE pdoc[p]]

PageLive(p) == p # NoHandle /\ pstat[p] = "live"

\* what a method call on the page handle p raises when p is not a live page
PageExc(p) == IF p = NoHandle THEN "AttributeError" ELSE "Error"

(***************************************************************************)
(* Session lifecycle: initialize (lines 23-62).                            *)
(***************************************************************************)
is_initialized_never == FALSE

is_initialized == initialized

\* lines 24-27: the guard, then the call is suspended on the browser launch
InitCheck(i) ==
    /\ icall[i].pc = "idle"
    /\ icall' = [icall EXCEPT ![i].pc = IF is_initialized THEN "returned_early" ELSE "launch"]
    /\ Quiet
    /\ UNCHANGED <<sessvars, worldvars, dispvars, ucall>>

\* lines 27-45: the launch completes and self.browser is assigned, then new_page
\* is called on it; or the launch raises
InitLaunch(i) ==
    /\ icall[i].pc = "launch"
    /\ \/ /\ \E b \in Browsers :
                /\ bstat[b] = "none"
                /\ \A c \in Browsers : c < b => bstat[c] # "none"
                /\ bstat' = [bstat EXCEPT ![b] = "live"]
                /\ browser' = b
                /\ icall' = [icall EXCEPT ![i] = [pc |-> "new_page", browser |-> b]]
          /\ UNCHANGED <<initialized, page, use_plus, hasDisplayed>>
       \/ /\ icall' = [icall EXCEPT ![i].pc = "raised"]
          /\ UNCHANGED <<sessvars, bstat>>
    /\ Quiet
    /\ UNCHANGED <<pstat, pbrowser, pdoc, routes, dispvars, ucall>>

\* lines 45-62: new_page completes in the browser it was called on, then
\* self.page and self._initialized are assigned; or new_page raises
InitNewPage(i) ==
    /\ icall[i].pc = "new_page"
    /\ \/ /\ bstat[icall[i].browser] = "live"
          /\ \E p \in Pages :
                /\ pstat[p] = "none"
                /\ \A q \in Pages : q < p => pstat[q] # "none"
                /\ pstat' = [pstat EXCEPT ![p] = "live"]
                /\ pbrowser' = [pbrowser EXCEPT ![p] = icall[i].browser]
                /\ page' = p
          /\ initialized' = TRUE
          /\ icall' = [icall EXCEPT ![i].pc = "done"]
          /\ UNCHANGED <<browser, use_plus, hasDisplayed>>
       \/ /\ icall' = [icall EXCEPT ![i].pc = "raised"]
          /\ UNCHANGED <<sessvars, pstat, pbrowser>>
    /\ Quiet
    /\ UNCHANGED <<bstat, pdoc, routes, dispvars, ucall>>

\* the caller of initialize() goes on
InitReturn(i) ==
    /\ icall[i].pc \in {"returned_early", "done", "raised"}
    /\ icall' = [icall EXCEPT ![i] = IdleInit]
    /\ Quiet
    /\ UNCHANGED <<sessvars, worldvars, dispvars, ucall>>

(***************************************************************************)
(* Session lifecycle: uninitialize (lines 159-165).                        *)
(***************************************************************************)
UninitExceptAttributeError(c, exc) ==
    IF exc = "AttributeError" THEN [c EXCEPT !.exc = exc, !.pc = "done"]
    ELSE [c EXCEPT !.raised = exc, !.pc = "done"]

\* lines 164-165: the bare except swallows whatever was raised
UninitExcept(c, exc) == [c EXCEPT !.exc = exc, !.pc = "done"]

\* line 161: self.page.close() is called
UninitStart ==
    /\ ucall.pc = "idle"
    /\ ucall' = IF page = NoHandle
                THEN UninitExcept(ucall, PageExc(page))
                ELSE [ucall EXCEPT !.pc = "close_page", !.page = page]
    /\ Quiet
    /\ UNCHANGED <<sessvars, worldvars, dispvars, icall>>

\* lines 161-162: the page closes and self.browser.close() is called, or
\* page.close() raises
UninitClosePage ==
    /\ ucall.pc = "close_page"
    /\ \/ /\ ClosePages({ucall.page})
          /\ ucall' = IF browser = NoHandle
                      THEN UninitExcept(ucall, "AttributeError")
                      ELSE [ucall EXCEPT !.pc = "close_browser", !.browser = browser]
       \/ /\ ucall' = UninitExcept(ucall, "Error")
          /\ UNCHANGED <<pstat, routes, pdoc>>
    /\ Quiet
    /\ UNCHANGED <<sessvars, bstat, pbrowser, dispvars, icall>>

\* lines 162-163: the browser closes, with the pages in it, and _initialized is
\* reset; or browser.close() raises
UninitCloseBrowser ==
    /\ ucall.pc = "close_browser"
    /\ \/ /\ bstat' = [bstat EXCEPT ![ucall.browser] = "closed"]
          /\ ClosePages({p \in Pages : pbrowser[p] = ucall.browser})
          /\ initialized' = FALSE
          /\ ucall' = [ucall EXCEPT !.pc = "done"]
          /\ UNCHANGED <<browser, page, use_plus, hasDisplayed>>
       \/ /\ ucall' = UninitExcept(ucall, "Error")
          /\ UNCHANGED <<sessvars, bstat, pstat, routes, pdoc>>
    /\ Quiet
    /\ UNCHANGED <<pbrowser, dispvars, icall>>

\* the caller of uninitialize() goes on
UninitReturn ==
    /\ ucall.pc = "done"
    /\ ucall' = IdleUninit
    /\ Quiet
    /\ UNCHANGED <<sessvars, worldvars, dispvars, icall>>

(***************************************************************************)
(* request (lines 64-157): the pieces of the code.                         *)
(***************************************************************************)
\* dict.get(key, default), lines 67-70
Get(options, key, default) == IF key \in DOMAIN options THEN options[key] ELSE default

\* str.replace on the host of a URL, line 75
replace(u, old, new) == IF u.host = old THEN [u EXCEPT !.host = new] ELSE u

\* line 84: url.endswith("/streaming/")
EndsWithStreaming(u) == Len(u.path) > 0 /\ u.path[Len(u.path)] = "streaming"

\* a handler that passes post_data whatever the method
request_handler_always_posts(c, is_navigation_request) ==
    IF is_navigation_request /\ ~c.initial_request
    THEN [res |-> "abort", method |-> Unchanged, headers |-> Unchanged,
          body |-> Unchanged, initial_request |-> c.initial_request]
    ELSE [res |-> "continue", method |-> c.method, headers |-> c.headers,
          body |-> c.body, initial_request |-> FALSE]

request_handler_never_aborts(c, is_navigation_request) ==
    [res |-> "continue", method |-> c.method, headers |-> c.headers,
     body |-> IF c.method = "GET" THEN Unchanged ELSE c.body,
     initial_request |-> FALSE]

\* lines 123-139: what request_handler of the call with frame c does with a
\* request: how the route is resolved, what continue_ overrides, and the value
\* initial_request has afterwards
request_handler(c, is_navigation_request) ==
    IF is_navigation_request /\ ~c.initial_request
    THEN [res |-> "abort", method |-> Unchanged, headers |-> Unchanged,
          body |-> Unchanged, initial_request |-> c.initial_request]
    ELSE [res |-> "continue", method |-> c.method, headers |-> c.headers,
          body |-> IF c.method = "GET" THEN Unchanged ELSE c.body,
          initial_request |-> FALSE]

InnerExceptNoFinally(c, exc) ==
    [c EXCEPT !.diag = TRUE, !.pc = "done", !.failed = TRUE]

\* lines 145-148: the inner handler prints the exception and falls into the
\* finally clause.  Every exception the model raises is an Exception.
InnerExcept(c, exc) ==
    [c EXCEPT !.diag = TRUE, !.pc = "unroute",
              !.failed = TRUE]

OuterExceptBrowserErrors(c, exc) ==
    IF exc = "Error"
    THEN [c EXCEPT !.diag = @ \/ (c.url # AuthUrl), !.pc = "done", !.failed = TRUE]
    ELSE [c EXCEPT !.raised = exc, !.pc = "done", !.failed = TRUE]

\* lines 150-157: the outer handler prints unless the URL is the lazy
\* authentication probe, then request returns response
OuterExcept(c, exc) ==
    IF exc \in ExceptionClass
    THEN [c EXCEPT !.diag = @ \/ (c.url # AuthUrl), !.pc = "done",
                   !.failed = TRUE]
    ELSE [c EXCEPT !.raised = exc, !.pc = "done",
                   !.failed = TRUE]

(***************************************************************************)
(* The in-page script of the streaming path (lines 90-109).                *)
(***************************************************************************)
\* the ends a match of /\{.*\}/ starting at s may have: "." matches no line end
MatchEnds(data, s) ==
    {e \in (s + 1)..Len(data) :
        /\ data[e] = "}"
        /\ \A k \in (s + 1)..(e - 1) : data[k] # "\n"}

MatchEndLazy(ends) == Min(ends)

\* ".*" is greedy: the match ends at the last of them
MatchEnd(ends) == Max(ends)

\* data.match(/\{.*\}/g), line 94: the matches in order, each search starting
\* after the end of the match before; << >> stands for null (no match)
RECURSIVE match(_, _)
match(data, from) ==
    LET starts == {s \in from..Len(data) : data[s] = "{" /\ MatchEnds(data, s) # {}}
    IN  IF starts = {} THEN << >>
        ELSE LET s == Min(starts)
                 e == MatchEnd(MatchEnds(data, s))
             IN  <<SubSeq(data, s, e)>> \o match(data, e + 1)

Thrown == [kind |-> "thrown"]

EvaluateScriptEmptyText(data) ==
    LET matches == match(data, 1)
    IN  [kind |-> "dict", code |-> 200,
         response |-> IF matches = << >> THEN << >> ELSE matches[Len(matches)]]

\* lines 94-108: matches[matches.length - 1] is read before matches is tested,
\* so the script throws when there is no match; otherwise code and response
EvaluateScript(data) ==
    LET matches == match(data, 1)
    IN  IF matches = << >> THEN Thrown
        ELSE [kind |-> "dict", code |-> 200, response |-> matches[Len(matches)]]

\* lines 116-117
WithStatusAndText(r) ==
    [kind |-> "dict", code |-> r.code, response |-> r.response,
     status |-> r.code, text |-> r.response]

(***************************************************************************)
(* request: the steps.                                                     *)
(***************************************************************************)
\* the handlers a request sent by page p may be given to: every handler routed
\* for '**/*' matches it, and which one the browser library calls is not fixed
\* by the source; 0 stands for no handler (the request goes out as it is)
Handlers(p) == IF routes[p] = {} THEN {0} ELSE routes[p]

\* the request as it left the browser, after handler h (if any) resolved it
Sent(h, owner, nav) ==
    LET url == IF owner = 0 THEN NoUrl ELSE call[owner].url IN
    IF h = 0
    THEN [h |-> 0, owner |-> owner, nav |-> nav, first |-> FALSE, res |-> "direct",
          method |-> Unchanged, headers |-> Unchanged, body |-> Unchanged,
          url |-> url]
    ELSE LET r == request_handler(call[h], nav)
         IN  [h |-> h, owner |-> owner, nav |-> nav,
              first |-> nav /\ ~call[h].nav_seen, res |-> r.res,
              method |-> r.method, headers |-> r.headers, body |-> r.body,
              url |-> url]

\* the frames after handler h (if any) resolved a request
Handled(h, nav) ==
    IF h = 0 THEN call
    ELSE [call EXCEPT ![h].initial_request = request_handler(call[h], nav).initial_request,
                      ![h].nav_seen = @ \/ nav]

\* lines 74-75: when use_plus is set, url.replace(...) is evaluated as a
\* statement; str.replace returns a new string, which is not assigned, and the
\* name url keeps its value
UrlAfterUsePlus(u, plus) ==
    LET replaced == IF plus THEN replace(u, BetaHost, PlusHost) ELSE u
    IN  u

\* an entry of request that treats use_plus as a one-shot switch
RequestClearingUsePlus(d, u, o) ==
    /\ call[d].pc = "idle"
    /\ call' = [call EXCEPT ![d] =
                  [IdleCall EXCEPT
                     !.pc = IF EndsWithStreaming(u) THEN "evaluate" ELSE "route",
                     !.page = page,
                     !.plus = use_plus,
                     !.url = UrlAfterUsePlus(u, use_plus),
                     !.method = Get(o, "method", "GET"),
                     !.body = Get(o, "body", EmptyDict),
                     !.headers = Get(o, "headers", EmptyDict)]]
    /\ hasDisplayed' = (hasDisplayed \/ EndsWithStreaming(u))
    /\ use_plus' = FALSE
    /\ Quiet
    /\ UNCHANGED <<initialized, browser, page, worldvars, lifevars>>

\* lines 64-84 (and 86-87, 121): the entry of request up to its first await
Request(d, u, o) ==
    /\ call[d].pc = "idle"
    /\ call' = [call EXCEPT ![d] =
                  [IdleCall EXCEPT
                     !.pc = IF EndsWithStreaming(u) THEN "evaluate" ELSE "route",
                     !.page = page,
                     !.plus = use_plus,
                     !.url = UrlAfterUsePlus(u, use_plus),
                     !.method = Get(o, "method", "GET"),
                     !.body = Get(o, "body", EmptyDict),
                     !.headers = Get(o, "headers", EmptyDict)]]
    /\ hasDisplayed' = (hasDisplayed \/ EndsWithStreaming(u))
    /\ Quiet
    /\ UNCHANGED <<initialized, browser, page, use_plus, worldvars, lifevars>>

\* page.route called without await: the handler is not installed when the
\* navigation starts
RouteNotAwaited(d) ==
    LET c == call[d] IN
    /\ c.pc = "route"
    /\ call' = [call EXCEPT ![d] = IF PageLive(c.page)
                                   THEN [c EXCEPT !.pc = "goto"]
                                   ELSE InnerExcept(c, PageExc(c.page))]
    /\ Quiet
    /\ UNCHANGED <<sessvars, worldvars, lifevars>>

\* line 141: page.route installs the handler, or raises
Route(d) ==
    LET c == call[d] IN
    /\ c.pc = "route"
    /\ IF PageLive(c.page)
       THEN /\ routes' = [routes EXCEPT ![c.page] = @ \cup {d}]
            /\ call' = [call EXCEPT ![d].pc = "goto"]
       ELSE /\ call' = [call EXCEPT ![d] = InnerExcept(c, PageExc(c.page))]
            /\ UNCHANGED routes
    /\ Quiet
    /\ UNCHANGED <<sessvars, bstat, pstat, pbrowser, pdoc, lifevars>>

\* line 143: page.goto sends the navigation request, which a routed handler
\* resolves; an aborted navigation makes goto raise
Goto(d) ==
    LET c == call[d] IN
    /\ c.pc = "goto"
    /\ IF PageLive(c.page)
       THEN \E h \in Handlers(c.page) :
              LET sent == Sent(h, d, TRUE)
                  after == Handled(h, TRUE)
                  mine == after[d]
              IN  /\ last' = sent
                  /\ call' = [after EXCEPT ![d] =
                                IF sent.res = "abort"
                                THEN InnerExcept(mine, "Error")
                                ELSE [mine EXCEPT !.pc = "loading", !.curnav = 1]]
       ELSE /\ call' = [call EXCEPT ![d] = InnerExcept(c, PageExc(c.page))]
            /\ Quiet
    /\ UNCHANGED <<sessvars, worldvars, lifevars>>

\* the page starts another top-level navigation (a redirect, a script) while
\* goto or the settle delay of d is pending
SecondNavigation(d) ==
    LET c == call[d] IN
    /\ c.pc \in {"loading", "settle"}
    /\ PageLive(c.page)
    /\ \E h \in Handlers(c.page) :
          LET sent == Sent(h, d, TRUE)
              after == Handled(h, TRUE)
          IN  /\ last' = sent
              /\ call' = [after EXCEPT
                            ![d].curnav = IF sent.res # "abort" /\ c.pc = "loading"
                                          THEN 2 ELSE @]
    /\ UNCHANGED <<sessvars, worldvars, lifevars>>

\* line 143: page.goto returns the response of the navigation, or raises
GotoReturn(d) ==
    LET c == call[d] IN
    /\ c.pc = "loading"
    /\ \/ /\ PageLive(c.page)
          /\ \E s \in Statuses :
                call' = [call EXCEPT ![d].pc = "settle",
                           ![d].response = [kind |-> "Response", status |-> s,
                                            nav |-> c.curnav]]
          /\ pdoc' = [pdoc EXCEPT ![c.page] = TRUE]
       \/ /\ call' = [call EXCEPT ![d] = InnerExcept(c, "Error")]
          /\ UNCHANGED pdoc
    /\ Quiet
    /\ UNCHANGED <<sessvars, bstat, pstat, pbrowser, routes, lifevars>>

\* line 144: page.wait_for_timeout(500) returns, or raises on a closed page
Settle(d) ==
    LET c == call[d] IN
    /\ c.pc = "settle"
    /\ call' = [call EXCEPT ![d] = IF PageLive(c.page)
                                   THEN [c EXCEPT !.pc = "unroute"]
                                   ELSE InnerExcept(c, PageExc(c.page))]
    /\ Quiet
    /\ UNCHANGED <<sessvars, worldvars, lifevars>>

\* a finally clause that calls page.unroute again until it succeeds
UnrouteRetrying(d) ==
    LET c == call[d] IN
    /\ c.pc = "unroute"
    /\ IF PageLive(c.page)
       THEN /\ routes' = [routes EXCEPT ![c.page] = {}]
            /\ call' = [call EXCEPT ![d].pc = "done"]
       ELSE /\ call' = [call EXCEPT ![d].failed = TRUE]
            /\ UNCHANGED routes
    /\ Quiet
    /\ UNCHANGED <<sessvars, bstat, pstat, pbrowser, pdoc, lifevars>>

\* lines 148-157: page.unroute('**/*') removes every handler routed for the
\* pattern and request returns; or it raises into the outer handler
Unroute(d) ==
    LET c == call[d] IN
    /\ c.pc = "unroute"
    /\ IF PageLive(c.page)
       THEN /\ routes' = [routes EXCEPT ![c.page] = {}]
            /\ call' = [call EXCEPT ![d].pc = "done"]
       ELSE /\ call' = [call EXCEPT ![d] = OuterExcept(c, PageExc(c.page))]
            /\ UNCHANGED routes
    /\ Quiet
    /\ UNCHANGED <<sessvars, bstat, pstat, pbrowser, pdoc, lifevars>>

\* lines 89-117, 150-157: page.evaluate runs the script, whose fetch is a
\* request of the page like any other; the script's result gets its status and
\* text, or evaluate raises into the outer handler
Evaluate(d, data) ==
    LET c == call[d] IN
    /\ c.pc = "evaluate"
    /\ IF PageLive(c.page)
       THEN \E h \in Handlers(c.page) :
              LET after == Handled(h, FALSE)
                  mine == after[d]
                  result == EvaluateScript(data)
              IN  /\ last' = Sent(h, d, FALSE)
                  /\ \/ call' = [after EXCEPT ![d] = OuterExcept(mine, "Error")]
                     \/ call' = [after EXCEPT ![d] =
                                   IF result = Thrown
                                   THEN OuterExcept([mine EXCEPT !.data = data], "Error")
                                   ELSE [mine EXCEPT !.data = data, !.pc = "done",
                                           !.response = WithStatusAndText(result)]]
       ELSE /\ call' = [call EXCEPT ![d] = OuterExcept(c, PageExc(c.page))]
            /\ Quiet
    /\ UNCHANGED <<sessvars, worldvars, lifevars>>

\* a script of the document loaded in page p sends a request of its own
SubResource(p) ==
    /\ PageLive(p)
    /\ pdoc[p]
    /\ \E h \in routes[p] :
          /\ last' = Sent(h, 0, FALSE)
          /\ call' = Handled(h, FALSE)
    /\ UNCHANGED <<sessvars, worldvars, lifevars>>

\* the caller of request() takes the returned value
Return(d) ==
    /\ call[d].pc = "done"
    /\ call' = [call EXCEPT ![d] = IdleCall]
    /\ Quiet
    /\ UNCHANGED <<sessvars, worldvars, lifevars>>

\* the client sets the use_plus attribute of the requester (line 15)
SetUsePlus(b) ==
    /\ use_plus' = b
    /\ Quiet
    /\ UNCHANGED <<initialized, browser, page, hasDisplayed, worldvars, dispvars, lifevars>>

Dispatch ==
    \/ \E d \in Dispatches, u \in Urls, o \in OptionDicts : Request(d, u, o)
    \/ \E d \in Dispatches : Route(d) \/ Goto(d) \/ SecondNavigation(d) \/ GotoReturn(d)
    \/ \E d \in Dispatches : Settle(d) \/ Unroute(d) \/ Return(d)
    \/ \E d \in Dispatches, data \in SampleTexts : Evaluate(d, data)
    \/ \E p \in Pages : SubResource(p)

Lifecycle ==
    \/ \E i \in InitCallers : InitCheck(i) \/ InitLaunch(i) \/ InitNewPage(i) \/ InitReturn(i)
    \/ UninitStart
    \/ UninitClosePage
    \/ UninitCloseBrowser
    \/ UninitReturn

\* one caller of initialize
Initialize1 == InitCheck(1) \/ InitLaunch(1) \/ InitNewPage(1) \/ InitReturn(1)

Uninitialize == UninitStart \/ UninitClosePage \/ UninitCloseBrowser \/ UninitReturn

\* one caller of request, awaiting each call before the next
Dispatch1 ==
    \/ \E u \in Urls, o \in OptionDicts : Request(1, u, o)
    \/ Route(1) \/ Goto(1) \/ SecondNavigation(1) \/ GotoReturn(1)
    \/ Settle(1) \/ Unroute(1) \/ Return(1)
    \/ \E data \in SampleTexts : Evaluate(1, data)
    \/ \E p \in Pages : SubResource(p)

(***************************************************************************)
(* Spec: one caller of request, with initialize and uninitialize running   *)
(* beside it.                                                              *)
(***************************************************************************)
Next == Dispatch1 \/ Initialize1 \/ Uninitialize

Spec == Init /\ [][Next]_vars

(***************************************************************************)
(* SpecLife: the lifecycle alone, with concurrent callers of initialize.   *)
(***************************************************************************)
SpecLife == Init /\ [][Lifecycle]_vars

(***************************************************************************)
(* SpecConc: concurrent callers of request, and one caller of initialize.   *)
(***************************************************************************)
NextConc == Dispatch \/ Initialize1

SpecConc == Init /\ [][NextConc]_vars

(***************************************************************************)
(* SpecStream: one caller of request on the streaming path, the in-page    *)
(* fetch yielding any text of at most MaxLen characters.                   *)
(***************************************************************************)
NextStream ==
    \/ Initialize1
    \/ \E o \in OptionDicts : Request(1, StreamUrl, o)
    \/ \E data \in Texts : Evaluate(1, data)
    \/ Return(1)

SpecStream == Init /\ [][NextStream]_vars

(***************************************************************************)
(* SpecPlus: Spec on a session whose use_plus attribute the client sets    *)
(* and clears.                                                             *)
(***************************************************************************)
NextPlus == Next \/ (\E b \in BOOLEAN : SetUsePlus(b))

SpecPlus == Init /\ [][NextPlus]_vars

(***************************************************************************)
(* What a returned value carries.                                          *)
(***************************************************************************)
Standard(c) == ~EndsWithStreaming(c.url)
Returned(d) == call[d].pc = "done"
Success(r) == r.kind # "None" /\ r.status = 200
HasText(r) == r.kind = "dict"

(***************************************************************************)
(* C1.  request never lets an exception reach its caller: on either path,  *)
(* in any state of the session and whichever browser operation raises, the *)
(* call returns a value.                                                   *)
(***************************************************************************)
RequestNeverRaises == \A d \in Dispatches : call[d].raised = NoExc

\* a standard-path call returned after its page was closed under it
RequestReturnedAfterFailure ==
    \E d \in Dispatches :
        /\ Returned(d) /\ Standard(call[d]) /\ call[d].failed
        /\ call[d].page # NoHandle /\ pstat[call[d].page] = "closed"
        /\ call[d].raised = NoExc

(***************************************************************************)
(* C2.  The first top-level navigation request the handler of a            *)
(* standard-path call sees is continued, with the method and headers of    *)
(* the call's options and, unless the method is GET, their body.           *)
(***************************************************************************)
FirstNavigationContinuedWithOptions ==
    (last.h # 0 /\ last.nav /\ last.first) =>
        /\ last.res = "continue"
        /\ last.method = call[last.h].method
        /\ last.headers = call[last.h].headers
        /\ call[last.h].method # "GET" => last.body = call[last.h].body

(***************************************************************************)
(* C3.  Every top-level navigation request the handler of a standard-path  *)
(* call sees after the first one is aborted, and the response the call     *)
(* holds is the one of its first navigation.                               *)
(***************************************************************************)
LaterNavigationsAborted ==
    /\ (last.h # 0 /\ last.nav /\ ~last.first) => last.res = "abort"
    /\ \A d \in Dispatches :
          call[d].response.kind = "Response" => call[d].response.nav = 1

\* a second navigation was aborted while the call holds its response
SecondNavigationAborted ==
    /\ last.h # 0 /\ last.nav /\ ~last.first /\ last.res = "abort"
    /\ last.owner = last.h
    /\ call[last.h].response.kind = "Response"

(***************************************************************************)
(* C4.  Whenever a standard-path call returns, however its navigation      *)
(* ended, its handler is routed on no page.                                *)
(***************************************************************************)
HandlerRemovedOnReturn ==
    \A d \in Dispatches : Returned(d) => \A p \in Pages : d \notin routes[p]

\* a call returned after its navigation raised on a live page
ReturnedAfterNavigationRaised ==
    \E d \in Dispatches :
        /\ Returned(d) /\ Standard(call[d]) /\ call[d].failed
        /\ PageLive(call[d].page)
        /\ call[d].response = None

(***************************************************************************)
(* Fetched texts, described without the regular expression.                *)
(***************************************************************************)
Evaluated(d) == Returned(d) /\ ~Standard(call[d]) /\ call[d].data # NoText

OneLine(data, i, j) == \A k \in i..j : data[k] # "\n"

\* from the first "{" of a line to the last "}" of the same line
LineSpans(data) ==
    {se \in (1..Len(data)) \X (1..Len(data)) :
        /\ se[1] < se[2]
        /\ data[se[1]] = "{" /\ data[se[2]] = "}"
        /\ OneLine(data, se[1], se[2])
        /\ \A k \in 1..(se[1] - 1) : OneLine(data, k, se[1]) => data[k] # "{"
        /\ \A k \in (se[2] + 1)..Len(data) : OneLine(data, se[2], k) => data[k] # "}"}

LastLineSpan(data) ==
    LET se == CHOOSE x \in LineSpans(data) : \A y \in LineSpans(data) : y[2] <= x[2]
    IN  SubSeq(data, se[1], se[2])

Count(t, ch, k) == Cardinality({i \in 1..k : t[i] = ch})

\* a complete object: an opening brace up to the brace that closes it
IsObject(t) ==
    /\ Len(t) >= 2
    /\ t[1] = "{" /\ t[Len(t)] = "}"
    /\ Count(t, "{", Len(t)) = Count(t, "}", Len(t))
    /\ \A k \in 1..(Len(t) - 1) : Count(t, "{", k) > Count(t, "}", k)

Objects(data) ==
    {se \in (1..Len(data)) \X (1..Len(data)) :
        se[1] < se[2] /\ IsObject(SubSeq(data, se[1], se[2]))}

LastObject(data) ==
    LET se == CHOOSE x \in Objects(data) : \A y \in Objects(data) : y[2] <= x[2]
    IN  SubSeq(data, se[1], se[2])

NoBracePair(data) ==
    ~\E s, e \in 1..Len(data) : s < e /\ data[s] = "{" /\ data[e] = "}"

\* junk and complete objects on one line, every brace part of an object
ObjectsOnOneLine(data) ==
    /\ OneLine(data, 1, Len(data))
    /\ Count(data, "{", Len(data)) = Count(data, "}", Len(data))
    /\ \A k \in 1..Len(data) : Count(data, "{", k) >= Count(data, "}", k)

AuthProbeFailuresSilent ==
    \A d \in Dispatches :
        (Returned(d) /\ call[d].failed /\ call[d].response = None)
            => (call[d].diag <=> call[d].url # AuthUrl)

(***************************************************************************)
(* C8.  A request that belongs to one call is never resolved by the        *)
(* handler of another call, and the handler of a call stays routed until   *)
(* the call's own unroute.                                                 *)
(***************************************************************************)
NoCrossApplication ==
    /\ (last.owner # 0 /\ last.h # 0) => last.h = last.owner
    /\ \A d \in Dispatches :
          (call[d].pc \in {"goto", "loading", "settle"} /\ PageLive(call[d].page))
              => d \in routes[call[d].page]

(***************************************************************************)
(* C9.  initialize is idempotent: a call made when the session is          *)
(* initialized returns at once, launching no browser and creating no page. *)
(***************************************************************************)
InitializeIdempotent ==
    [][\A i \in InitCallers :
          (icall[i].pc = "idle" /\ icall'[i].pc # "idle" /\ initialized)
              => /\ icall'[i].pc = "returned_early"
                 /\ UNCHANGED <<browser, page, bstat, pstat, initialized>>]_vars

\* a second call returned early with one browser and one page created
SecondInitializeReturnedEarly ==
    /\ \E i \in InitCallers : icall[i].pc = "returned_early"
    /\ Cardinality({b \in Browsers : bstat[b] # "none"}) = 1
    /\ Cardinality({p \in Pages : pstat[p] # "none"}) = 1

(***************************************************************************)
(* C10.  uninitialize never raises: not when initialize was never called,  *)
(* not when the session is initialized, not on a second call, and not when *)
(* closing the page or the browser raises.                                 *)
(***************************************************************************)
UninitializeNeverRaises == ucall.raised = NoExc

\* uninitialize returned after a close raised
UninitializeSwallowedCloseError ==
    ucall.pc = "done" /\ ucall.exc = "Error" /\ ucall.raised = NoExc

(***************************************************************************)
(* C11.  Whenever uninitialize returns, is_initialized() is false, also    *)
(* when closing the page or the browser raised.                            *)
(***************************************************************************)
UninitializeResetsFlag ==
    (ucall.pc = "done" /\ ucall.page # NoHandle) => ~is_initialized

(***************************************************************************)
(* C12.  With use_plus set, the URL of the navigation or in-page fetch of  *)
(* a call is the given URL with beta.character.ai replaced by              *)
(* plus.character.ai.                                                      *)
(***************************************************************************)
UsePlusRewritesUrl ==
    (last.owner # 0 /\ call[last.owner].plus) =>
        /\ last.url = replace(last.url, BetaHost, PlusHost)
        /\ last.url.host = PlusHost

(***************************************************************************)
(* CharacterMethods (methods/synchronous/character.py): an operation takes *)
(* what the requester's request gave back and reads its status_code.       *)
(***************************************************************************)
TypedErrors == {"FetchError", "SearchError", "ActionError", "CreateError", "EditError"}

\* hasattr(request, name): None has no attributes, and the values request
\* returns carry the attributes the requester gave them
hasattr(request, name) == request # None /\ name \in DOMAIN request

\* lines 18-37: the attribute read of line 24 raises AttributeError on a value
\* without status_code; status 200 gives the parsed payload, any other status
\* raises FetchError
fetch_characters_by_category(request) ==
    IF ~hasattr(request, "status_code")
    THEN [raised |-> "AttributeError"]
    ELSE IF request["status_code"] = 200
         THEN [raised |-> NoExc]
         ELSE [raised |-> "FetchError"]

(***************************************************************************)
(* C13.  When the call of request under a CharacterMethods operation gives *)
(* back a failure sentinel (no status, or a status other than 200), the    *)
(* operation raises one of its typed errors and nothing else.              *)
(***************************************************************************)
DomainRaisesTypedError ==
    \A d \in Dispatches :
        (Returned(d) /\ ~Success(call[d].response)) =>
            fetch_characters_by_category(call[d].response).raised \in TypedErrors

(***************************************************************************)
(* C14.  At most one browser and at most one page opened by the session    *)
(* are live, after any interleaving of initialize and uninitialize calls,  *)
(* failed steps included.                                                  *)
(***************************************************************************)
LiveBrowsers == {b \in Browsers : bstat[b] = "live"}
LivePages == {p \in Pages : PageLive(p)}

AtMostOneBrowserAndPage ==
    /\ Cardinality(LiveBrowsers) <= 1
    /\ Cardinality(LivePages) <= 1

(***************************************************************************)
(* C15.  The steps of one standard-path call go in the order install the   *)
(* handler, navigate, settle, remove the handler, return: a navigation of  *)
(* the call is sent with its handler installed, the handler leaves the     *)
(* route table of a live page only at the call's unroute step (which       *)
(* follows the end of the navigation and of the settle delay, or their     *)
(* failure), and the call returns only from that step, its handler         *)
(* removed.                                                                *)
(***************************************************************************)
StandardOrder ==
    {<<"idle", "route">>, <<"route", "goto">>, <<"goto", "loading">>,
     <<"loading", "settle">>, <<"settle", "unroute">>, <<"unroute", "done">>,
     <<"done", "idle">>,
     <<"route", "unroute">>, <<"goto", "unroute">>, <<"loading", "unroute">>}

NavigationAfterInstall ==
    (last.owner # 0 /\ last.nav) => last.h = last.owner

StepsInOrder ==
    \A d \in Dispatches :
        LET a == call[d].pc
            b == call'[d].pc
        IN  /\ (a # b /\ "evaluate" \notin {a, b}) => <<a, b>> \in StandardOrder
            /\ \A p \in Pages :
                  (d \in routes[p] /\ d \notin routes'[p]) =>
                      (a = "unroute" \/ pstat'[p] # "live")
            /\ (a # "done" /\ b = "done" /\ Standard(call[d])) =>
                  /\ a = "unroute"
                  /\ \A p \in Pages : d \notin routes'[p]

StandardStepsOrdered == []NavigationAfterInstall /\ [][StepsInOrder]_vars

\* a standard-path call returned after all of its steps succeeded
StandardCallRanAllSteps ==
    /\ Returned(1) /\ Standard(call[1]) /\ ~call[1].failed
    /\ call[1].response.kind = "Response"

(***************************************************************************)
(* C16.  In calls of request made one after another on one session, the    *)
(* navigation request sent by each call's goto is resolved by that call's  *)
(* handler and continued with that call's method, headers and body,        *)
(* whatever the earlier calls left behind.                                 *)
(***************************************************************************)
EachCallsNavigationContinued ==
    LET d == last.owner IN
    (d # 0 /\ last.nav /\ call[d].curnav <= 1 /\ call[d].pc \in {"loading", "unroute"}
       /\ last.first) =>
        /\ last.h = d
        /\ last.res = "continue"
        /\ last.method = call[d].method
        /\ last.headers = call[d].headers
        /\ last.body = IF call[d].method = "GET" THEN Unchanged ELSE call[d].body

(***************************************************************************)
(* C17.  The page and the browser are not closed while a call of request   *)
(* on the session is between its start and its return: a call that has     *)
(* installed its handler on the live page and has not yet reached its      *)
(* unroute never finds that page closed.                                   *)
(***************************************************************************)
NoCloseUnderDispatch ==
    \A d \in Dispatches :
        (call[d].pc \in {"goto", "loading", "settle"} /\ call[d].page # NoHandle) =>
            pstat[call[d].page] # "closed"

(***************************************************************************)
(* SpecFair: Spec, with every browser operation a call of request awaits   *)
(* completing or failing in the end, and the event loop resuming the call. *)
(***************************************************************************)
BrowserAnswers ==
    /\ WF_vars(Route(1))
    /\ WF_vars(Goto(1))
    /\ WF_vars(GotoReturn(1))
    /\ WF_vars(Settle(1))
    /\ WF_vars(Unroute(1))
    /\ WF_vars(\E data \in SampleTexts : Evaluate(1, data))

SpecFair == Spec /\ BrowserAnswers

(***************************************************************************)
(* C18.  A call of request returns in the end, its handler out of the      *)
(* route table, when the browser completes or fails each operation the     *)
(* call awaits; and a call waiting for its navigation goes on only when    *)
(* page.goto itself returns or raises: request puts no time limit on it.   *)
(***************************************************************************)
InFlight(d) == call[d].pc \notin {"idle", "done"}

ReturnsWithHandlerRemoved(d) ==
    /\ Returned(d)
    /\ \A p \in Pages : d \notin routes[p]

OnlyGotoEndsNavigation ==
    (call[1].pc = "loading" /\ call'[1].pc # "loading") => GotoReturn(1)

DispatchTerminates ==
    /\ InFlight(1) ~> ReturnsWithHandlerRemoved(1)
    /\ [][OnlyGotoEndsNavigation]_vars

\* a standard-path call returned the answer of a navigation that got a
\* non-200 status, its handler removed from the live page
ReturnedNavigationAnswer ==
    /\ ReturnsWithHandlerRemoved(1) /\ Standard(call[1])
    /\ PageLive(call[1].page)
    /\ call[1].response.kind = "Response" /\ call[1].response.status = 500

(***************************************************************************)
(* C19.  The handler of a standard-path call resolves each request it is   *)
(* given once, by abort or by continue: it aborts exactly the navigation   *)
(* requests that find the first-request flag consumed, leaving the flag as *)
(* it is, and continues every other request, sub-resources included, with  *)
(* the call's method and headers (and its body unless the method is GET),  *)
(* consuming the flag.                                                     *)
(***************************************************************************)
HandlerResolution ==
    last'.h # 0 =>
        LET c == call[last'.h]
            r == last'
        IN  /\ r.res \in {"abort", "continue"}
            /\ r.res = "abort" <=> (r.nav /\ ~c.initial_request)
            /\ r.res = "abort" =>
                  /\ r.method = Unchanged /\ r.headers = Unchanged /\ r.body = Unchanged
                  /\ call'[r.h].initial_request = c.initial_request
            /\ r.res = "continue" =>
                  /\ r.method = c.method
                  /\ r.headers = c.headers
                  /\ r.body = IF c.method = "GET" THEN Unchanged ELSE c.body
                  /\ ~call'[r.h].initial_request

HandlerResolvesEachRequestOnce == [][HandlerResolution]_vars

\* a sub-resource request was continued with the POST method, headers and
\* body of the call whose handler got it
SubResourceContinuedAsPost ==
    /\ last.h # 0 /\ ~last.nav /\ last.res = "continue"
    /\ last.method = "POST" /\ last.body = PostOptions.body
    /\ ~call[last.h].initial_request

(***************************************************************************)
(* C20.  No step of request changes the initialized flag, the browser      *)
(* handle, the page handle or use_plus, on either path and whether the     *)
(* step succeeds or fails; and request uses the page it finds without      *)
(* testing the flag: on a session with no page, or with a closed one, its  *)
(* first browser operation fails, and a call on a session that never had a *)
(* page returns None.                                                      *)
(***************************************************************************)
RequestKeepsLifecycle ==
    call' # call => UNCHANGED <<initialized, browser, page, use_plus>>

FirstOperationFailsWithoutPage ==
    \A d \in Dispatches :
        (call[d].pc \in {"route", "evaluate"} /\ ~PageLive(call[d].page)
           /\ call'[d] # call[d]) =>
            /\ call'[d].failed
            /\ call'[d].response = None
            /\ call'[d].raised = NoExc

NoPageReturnsNone ==
    \A d \in Dispatches :
        (Returned(d) /\ call[d].page = NoHandle) =>
            call[d].response = None /\ call[d].raised = NoExc

RequestLeavesSessionAlone ==
    /\ []NoPageReturnsNone
    /\ [][RequestKeepsLifecycle /\ FirstOperationFailsWithoutPage]_vars

\* a call started on a session that is initialized but whose page was closed
\* returned None and left the session as it found it
ReturnedNoneOnClosedPage ==
    /\ Returned(1) /\ call[1].response = None /\ ~call[1].nav_seen
    /\ call[1].page = page /\ page # NoHandle /\ pstat[page] = "closed"
    /\ initialized /\ call[1].plus /\ use_plus
====
